---- MODULE Spec2Model ----
(***************************************************************************)
(* State-machine model of the ESP32-CAM cloud relay prototypes.            *)
(*                                                                         *)
(* The repository holds three independent Node.js programs:                *)
(*   - the MJPEG relay         (src/server.js, lines 384-612)              *)
(*   - the OTP/WebSocket relay (src/server.js, lines 1-382)                *)
(*   - the OTP/session server  (src/unnamed/part_000)                      *)
(* Each program is a single-threaded event loop: one action of the model   *)
(* is one run-to-completion handler, or one segment of an async handler    *)
(* between two awaits.                                                     *)
(***************************************************************************)
EXTENDS Integers, Sequences, FiniteSets, TLC

(***************************************************************************)
(* Universes of the inputs.                                                *)
(***************************************************************************)
NumFrames == 1                     \* distinct non-empty JPEG payloads
MaxOtps == 2
MaxTokens == 2                     \* session tokens generated in a run

Ids == {"camA", "camB"}            \* device identities (self-asserted strings)
Conns == {"h1", "h2"}              \* WebSocket transports of the MJPEG relay
Sinks == {"s1", "s2"}              \* HTTP responses of GET /stream/:id
Caps == {"c1", "c2"}               \* POST /api/device/:id/capture requests
Frames == {<<>>} \cup {<<n>> : n \in 1..NumFrames}   \* <<>>: zero-length Buffer
NoId == "undefined"                \* ws.deviceId before any handshake
RConns == {"w1", "w2"}             \* WebSocket transports of the OTP relay
Roles == {"camera", "viewer"}      \* ws.role values the relay acts on
Emails == {"u1"}                   \* account e-mail addresses
Listeners == {"L1", "L2"}          \* the watchDevice calls a device can get
Cmds == {"q1"}                     \* POST /command requests in flight
OtpKeys == 1..MaxOtps              \* push ids of view_otps records, in push order
OtpCodes == {"o1", "o2"}           \* values genOtp6() returns
VerifyReqs == {"v1", "v2"}         \* /verify-otp requests in flight
StartReqs == {"t1", "t2"}          \* /start-stream requests in flight
TokNums == 1..MaxTokens

(***************************************************************************)
(* MJPEG relay state.                                                      *)
(***************************************************************************)
VARIABLES
  wsState,        \* transport: "none", "open", "closing", "closed"
  wsDeviceId,     \* ws.deviceId
  wsIsAlive,      \* ws.isAlive
  devices,        \* Map deviceId -> ws
  lastFrame,      \* Map deviceId -> Buffer
  streamClients,  \* Map deviceId -> Set<res>
  sinkState,      \* res: "idle", "open", "ended" (res.end() called), "closed"
  sinkId,         \* the :id a res was opened for
  sinkBroken,     \* res.write throws from now on
  cap,            \* capture requests: progress, deadline flag, response
  sent,           \* what the last handler did on device transports, in
                  \* order: messages sent, pings, terminate calls: <<[to, msg]>>
  wrote,          \* what the last handler wrote to the stream responses
  apiResp         \* the JSON response of the last /api call that has one

connVars == <<wsState, wsDeviceId, wsIsAlive>>
regVars == <<devices, lastFrame>>
sinkVars == <<streamClients, sinkState, sinkId, sinkBroken>>
mjVars == <<connVars, regVars, sinkVars, cap, wrote, apiResp>>

(***************************************************************************)
(* OTP/WebSocket relay state.                                              *)
(***************************************************************************)
VARIABLES
  rState,         \* transport: "none", "open", "closing", "closed"
  rDeviceId,      \* ws.deviceId
  rRole,          \* ws.role
  rIsAlive,       \* ws.isAlive
  rBroken,        \* ws.send throws from now on although readyState is OPEN
  rHello,         \* camera handshakes suspended at the session read (line 192)
  clients,        \* Map deviceId -> ws (camera)
  viewers,        \* Map deviceId -> Set(ws)
  sessions,       \* Map deviceId -> {token, email, expiresAt}
  dbSession,      \* /devices/{id}/live/session in the directory store
  tokAge,         \* per issued token: Date.now() against its expiresAt
  vGrant,         \* otp_verify listeners suspended between lines 340 and 345
  cmdReq,         \* /command requests suspended at the session read (line 108)
  rMsg,           \* the credential carried by the message or request just handled
  rWrote,         \* what the last handler forwarded to viewers
  cmdResp         \* the response of the last /command or /push_session

(***************************************************************************)
(* OTP/WebSocket relay: the otp_request flow of watchDevice (lines         *)
(* 287-313, 363-378).  Listener L1 of a device is the one attached from    *)
(* the child_added event, L2 the one attached from the initial listing.    *)
(***************************************************************************)
VARIABLES
  dbDevices,      \* the children of /devices in the directory store
  listed,         \* the initial listing (line 372) has been answered
  watching,       \* per listener: the devices watchDevice was called for
  otpRequest,     \* /devices/{id}/live/otp_request: its status
  otpExpected,    \* /devices/{id}/live/otp_expected
  otpJob,         \* per listener and device: the handler run in flight
  mailed,         \* per device: the OTPs sgMail.send delivered, in order
  otpReqs         \* per device: the pending requests written so far

otpVars == <<dbDevices, listed, watching, otpRequest, otpExpected, otpJob, mailed, otpReqs>>

rConnVars == <<rState, rDeviceId, rRole, rIsAlive, rBroken, rHello>>
rRegVars == <<clients, viewers>>
gateVars == <<sessions, dbSession, tokAge, vGrant, cmdReq>>
relayVars == <<rConnVars, rRegVars, gateVars, otpVars, rMsg, rWrote, cmdResp>>

(***************************************************************************)
(* State of the OTP/session server (src/unnamed/part_000): the nodes of    *)
(* the database it owns and its requests suspended at an await.            *)
(***************************************************************************)
VARIABLES
  aDevices,       \* devices/{deviceId}
  aOtps,          \* view_otps/{deviceId}/{pushId}, by pushId
  aSessions,      \* sessions/{token}
  aVerify,        \* /verify-otp requests in flight
  aStart,         \* /start-stream requests in flight
  aResp           \* the response sent by the last step

authVars == <<aDevices, aOtps, aSessions, aVerify, aStart, aResp>>

vars == <<mjVars, relayVars, authVars, sent>>

(***************************************************************************)
(* JavaScript Map as a function whose domain is the set of present keys.   *)
(***************************************************************************)
MapSet(m, k, v) == [x \in (DOMAIN m) \cup {k} |-> IF x = k THEN v ELSE m[x]]

MapDelete(m, k) == [x \in (DOMAIN m) \ {k} |-> m[x]]

MapHas(m, k) == k \in DOMAIN m

EmptyMap == [x \in {} |-> NoId]

\* a lookup that does not test readyState
DeviceRegistered(id) == MapHas(devices, id)

\* ws && ws.readyState === WebSocket.OPEN, for ws = devices.get(id)
DeviceOpen(id) == MapHas(devices, id) /\ wsState[devices[id]] = "open"

NoResp == [status |-> "none", body |-> <<>>]

IdleCap == [st |-> "idle", id |-> NoId, late |-> FALSE, resp |-> NoResp]

Send(h, m) == <<[to |-> h, msg |-> m]>>

\* kind: "publish" (binary fan-out), "store" (legacy frame, cached only),
\* "replay" (on subscribe) or "invalid" (a text logged as invalid and
\* dropped); out: the units
\* each res received; failed: the res whose write threw; threw: an exception
\* left the handler
NoWrite == [kind |-> "none", id |-> NoId, f |-> <<>>, out |-> [s \in Sinks |-> <<>>],
            failed |-> {}, threw |-> FALSE]

NoApi == [op |-> "none", id |-> NoId, status |-> "none", online |-> {}]

(***************************************************************************)
(* Session credentials.  genToken() (32 random base-36 characters) never   *)
(* returns the same token twice: a token is its serial number, tagged with *)
(* the device it was generated for (the programs only compare tokens).     *)
(***************************************************************************)
NoCred == [token |-> [dev |-> NoId, n |-> 0], email |-> NoId]

Token(id, n) == [dev |-> id, n |-> n]

AllTokens == {Token(id, n) : id \in Ids, n \in TokNums}

\* what a caller can present: nothing, or a token that has been issued
Creds == {NoCred} \cup {[token |-> t, email |-> e] :
                          t \in {x \in AllTokens : tokAge[x.n] # "unissued"}, e \in Emails}

\* Date.now() < expiresAt
NowBefore(t) == t.n \in TokNums /\ tokAge[t.n] = "before"

\* Date.now() > expiresAt
NowAfter(t) == t.n \in TokNums /\ tokAge[t.n] = "after"

NoForward == [kind |-> "none", id |-> NoId, f |-> <<>>, out |-> [w \in RConns |-> <<>>],
              failed |-> {}]

NoCmdResp == [op |-> "none", id |-> NoId, status |-> "none"]

NoCmd == [id |-> NoId, cred |-> NoCred]

NoAResp == [op |-> "none", id |-> NoId, tok |-> 0, status |-> "none"]

IdleVerify == [pc |-> "idle", id |-> NoId, snap |-> {}, tok |-> 0]

NoSnap == [deviceId |-> NoId, used |-> FALSE]

IdleStart == [pc |-> "idle", id |-> NoId, tok |-> 0, snap |-> NoSnap]

IdleJob == [pc |-> "idle", otp |-> NoId]

Init ==
  /\ wsState = [h \in Conns |-> "none"]
  /\ wsDeviceId = [h \in Conns |-> NoId]
  /\ wsIsAlive = [h \in Conns |-> FALSE]
  /\ devices = EmptyMap
  /\ lastFrame = EmptyMap
  /\ streamClients = [id \in Ids |-> {}]
  /\ sinkState = [s \in Sinks |-> "idle"]
  /\ sinkId = [s \in Sinks |-> NoId]
  /\ sinkBroken = [s \in Sinks |-> FALSE]
  /\ cap = [c \in Caps |-> IdleCap]
  /\ sent = <<>>
  /\ wrote = NoWrite
  /\ apiResp = NoApi
  /\ rState = [w \in RConns |-> "none"]
  /\ rDeviceId = [w \in RConns |-> NoId]
  /\ rRole = [w \in RConns |-> NoId]
  /\ rIsAlive = [w \in RConns |-> FALSE]
  /\ rBroken = [w \in RConns |-> FALSE]
  /\ rHello = [w \in RConns |-> {}]
  /\ clients = EmptyMap
  /\ viewers = [id \in Ids |-> {}]
  /\ sessions = EmptyMap
  /\ dbSession = EmptyMap
  /\ tokAge = [n \in TokNums |-> "unissued"]
  /\ vGrant = [l \in Listeners |-> [id \in Ids |-> NoCred]]
  /\ cmdReq = [q \in Cmds |-> NoCmd]
  /\ dbDevices = {}
  /\ listed = FALSE
  /\ watching = [l \in Listeners |-> {}]
  /\ otpRequest = [id \in Ids |-> "none"]
  /\ otpExpected = [id \in Ids |-> NoId]
  /\ otpJob = [l \in Listeners |-> [id \in Ids |-> IdleJob]]
  /\ mailed = [id \in Ids |-> <<>>]
  /\ otpReqs = [id \in Ids |-> 0]
  /\ aDevices = EmptyMap
  /\ aOtps = EmptyMap
  /\ aSessions = EmptyMap
  /\ aVerify = [v \in VerifyReqs |-> IdleVerify]
  /\ aStart = [t \in StartReqs |-> IdleStart]
  /\ aResp = NoAResp
  /\ rMsg = NoCred
  /\ rWrote = NoForward
  /\ cmdResp = NoCmdResp

\* the outputs of a handler that sends and writes nothing
Quiet == sent' = <<>> /\ wrote' = NoWrite /\ apiResp' = NoApi

(***************************************************************************)
(* MJPEG relay: WebSocket side (wss.on("connection"), lines 421-503).      *)
(***************************************************************************)
\* h2 is the second transport to connect
MjConnection(h) ==
  /\ wsState[h] = "none"
  /\ h = "h1" \/ wsState["h1"] # "none"
  /\ wsState' = [wsState EXCEPT ![h] = "open"]
  /\ wsIsAlive' = [wsIsAlive EXCEPT ![h] = TRUE]
  /\ Quiet
  /\ UNCHANGED <<wsDeviceId, regVars, sinkVars, cap>>
  /\ UNCHANGED <<relayVars, authVars>>

MjPong(h) ==
  /\ wsState[h] = "open"
  /\ wsIsAlive' = [wsIsAlive EXCEPT ![h] = TRUE]
  /\ Quiet
  /\ UNCHANGED <<wsState, wsDeviceId, regVars, sinkVars, cap>>
  /\ UNCHANGED <<relayVars, authVars>>

\* a put that keeps the frame already cached
CachePutFirstWins(id, f) ==
  lastFrame' = IF MapHas(lastFrame, id) THEN lastFrame ELSE MapSet(lastFrame, id, f)

\* lastFrame.set(ws.deviceId, buf)
CachePut(id, f) == lastFrame' = MapSet(lastFrame, id, f)

WriteUnitTwice(f) == <<f, f>>

\* the five res.write calls of one multipart unit: what the sink receives
WriteUnit(f) == <<f>>

\* one try/catch around the whole loop: the first failing write ends it
PublishAbort(id, f) ==
  LET subs == streamClients[id]
      bad == {s \in subs : sinkBroken[s]}
  IN /\ wrote' = [kind |-> "publish", id |-> id, f |-> f,
                  out |-> [s \in Sinks |->
                             IF s \in subs /\ bad = {} THEN WriteUnit(f) ELSE <<>>],
                  failed |-> bad, threw |-> bad # {}]
     /\ streamClients' = [streamClients EXCEPT ![id] = subs \ bad]
     /\ sinkState' = [s \in Sinks |-> IF s \in bad THEN "ended" ELSE sinkState[s]]
     /\ UNCHANGED <<sinkId, sinkBroken>>

\* the fan-out loop: each subscriber is written in its own try/catch
Publish(id, f) ==
  LET subs == streamClients[id]
      bad == {s \in subs : sinkBroken[s]}
  IN /\ wrote' = [kind |-> "publish", id |-> id, f |-> f,
                  out |-> [s \in Sinks |-> IF s \in subs \ bad THEN WriteUnit(f) ELSE <<>>],
                  failed |-> bad, threw |-> FALSE]
     /\ streamClients' = [streamClients EXCEPT ![id] = subs \ bad]
     /\ sinkState' = [s \in Sinks |-> IF s \in bad THEN "ended" ELSE sinkState[s]]
     /\ UNCHANGED <<sinkId, sinkBroken>>

MjBinary(h, f) ==
  /\ wsState[h] = "open"
  /\ IF wsDeviceId[h] = NoId
       THEN /\ wrote' = NoWrite
            /\ UNCHANGED <<lastFrame, sinkVars>>
       ELSE /\ CachePut(wsDeviceId[h], f)
            /\ Publish(wsDeviceId[h], f)
  /\ sent' = <<>>
  /\ apiResp' = NoApi
  /\ UNCHANGED <<connVars, devices, cap>>
  /\ UNCHANGED <<relayVars, authVars>>

MjHello(h, id) ==
  /\ wsState[h] = "open"
  /\ wsDeviceId' = [wsDeviceId EXCEPT ![h] = id]
  /\ devices' = MapSet(devices, id, h)
  /\ sent' = Send(h, "hello_ack")
  /\ wrote' = NoWrite
  /\ apiResp' = NoApi
  /\ UNCHANGED <<wsState, wsIsAlive, lastFrame, sinkVars, cap>>
  /\ UNCHANGED <<relayVars, authVars>>

\* {type:"frame", reqId, data}: data is base64 and decodes to f; the frame is
\* stored and written to nobody (wrote.kind = "store")
MjLegacyFrame(h, f) ==
  /\ wsState[h] = "open"
  /\ IF wsDeviceId[h] = NoId
       THEN /\ wrote' = NoWrite
            /\ UNCHANGED lastFrame
       ELSE /\ wrote' = [NoWrite EXCEPT !.kind = "store", !.id = wsDeviceId[h], !.f = f]
            /\ CachePut(wsDeviceId[h], f)
  /\ sent' = <<>>
  /\ apiResp' = NoApi
  /\ UNCHANGED <<connVars, devices, sinkVars, cap>>
  /\ UNCHANGED <<relayVars, authVars>>

\* JSON that is neither a hello nor a frame (and, where MjMalformed is not
\* part of the specification, a text that does not parse)
MjOtherText(h) ==
  /\ wsState[h] = "open"
  /\ Quiet
  /\ UNCHANGED <<connVars, regVars, sinkVars, cap>>
  /\ UNCHANGED <<relayVars, authVars>>

\* the same text with no try around JSON.parse: the exception leaves the
\* handler and the process goes down with every transport and every map
MjMalformedUncaught(h) ==
  /\ wsState[h] = "open"
  /\ wrote' = [NoWrite EXCEPT !.kind = "invalid", !.threw = TRUE]
  /\ wsState' = [g \in Conns |-> IF wsState[g] = "none" THEN "none" ELSE "closed"]
  /\ devices' = EmptyMap
  /\ lastFrame' = EmptyMap
  /\ streamClients' = [id \in Ids |-> {}]
  /\ sent' = <<>>
  /\ apiResp' = NoApi
  /\ UNCHANGED <<wsDeviceId, wsIsAlive, sinkState, sinkId, sinkBroken, cap>>
  /\ UNCHANGED <<relayVars, authVars>>

\* a text that JSON.parse rejects, or that parses to null (json.type then
\* throws): the catch of line 478 logs it (wrote.kind = "invalid")
MjMalformed(h) ==
  /\ wsState[h] = "open"
  /\ wrote' = [NoWrite EXCEPT !.kind = "invalid"]
  /\ sent' = <<>>
  /\ apiResp' = NoApi
  /\ UNCHANGED <<connVars, regVars, sinkVars, cap>>
  /\ UNCHANGED <<relayVars, authVars>>

\* the peer closes or the network drops: readyState leaves OPEN
MjDrop(h) ==
  /\ wsState[h] = "open"
  /\ wsState' = [wsState EXCEPT ![h] = "closing"]
  /\ Quiet
  /\ UNCHANGED <<wsDeviceId, wsIsAlive, regVars, sinkVars, cap>>
  /\ UNCHANGED <<relayVars, authVars>>

MjClose(h) ==
  /\ wsState[h] = "closing"
  /\ wsState' = [wsState EXCEPT ![h] = "closed"]
  /\ IF wsDeviceId[h] # NoId
       THEN /\ devices' = MapDelete(devices, wsDeviceId[h])
            /\ lastFrame' = MapDelete(lastFrame, wsDeviceId[h])
       ELSE UNCHANGED <<devices, lastFrame>>
  /\ Quiet
  /\ UNCHANGED <<wsDeviceId, wsIsAlive, sinkVars, cap>>
  /\ UNCHANGED <<relayVars, authVars>>

\* wss.clients: the transports whose close event has not fired
WssClients == {h \in Conns : wsState[h] \in {"open", "closing"}}

\* what one tick does to each transport of wss.clients, in connection order
KeepaliveOps ==
  LET op(h) == IF h \in WssClients
                 THEN <<[to |-> h, msg |-> IF wsIsAlive[h] THEN "ping" ELSE "terminate"]>>
                 ELSE <<>>
  IN op("h1") \o op("h2")

\* a tick that pings without clearing ws.isAlive
MjKeepaliveNoClear ==
  /\ WssClients # {}
  /\ wsState' = [h \in Conns |->
                   IF h \in WssClients /\ ~wsIsAlive[h] /\ wsState[h] = "open"
                     THEN "closing" ELSE wsState[h]]
  /\ sent' = KeepaliveOps
  /\ wrote' = NoWrite
  /\ apiResp' = NoApi
  /\ UNCHANGED <<wsIsAlive, wsDeviceId, regVars, sinkVars, cap>>
  /\ UNCHANGED <<relayVars, authVars>>

MjKeepalive ==
  /\ WssClients # {}
  /\ wsState' = [h \in Conns |->
                   IF h \in WssClients /\ ~wsIsAlive[h] /\ wsState[h] = "open"
                     THEN "closing" ELSE wsState[h]]
  /\ wsIsAlive' = [h \in Conns |->
                     IF h \in WssClients /\ wsIsAlive[h] THEN FALSE ELSE wsIsAlive[h]]
  /\ sent' = KeepaliveOps
  /\ wrote' = NoWrite
  /\ apiResp' = NoApi
  /\ UNCHANGED <<wsDeviceId, regVars, sinkVars, cap>>
  /\ UNCHANGED <<relayVars, authVars>>

(***************************************************************************)
(* MJPEG relay: GET /stream/:id (lines 508-543).                           *)
(***************************************************************************)
\* a subscribe that leaves the cached frame for the next publish
GetStreamNoReplay(s, id) ==
  /\ sinkState[s] = "idle"
  /\ s = "s1" \/ sinkState["s1"] # "idle"
  /\ sinkState' = [sinkState EXCEPT ![s] = "open"]
  /\ sinkId' = [sinkId EXCEPT ![s] = id]
  /\ wrote' = NoWrite
  /\ sent' = IF DeviceOpen(id) THEN Send(devices[id], "capture_now") ELSE <<>>
  /\ streamClients' = [streamClients EXCEPT ![id] = @ \cup {s}]
  /\ apiResp' = NoApi
  /\ UNCHANGED <<connVars, regVars, sinkBroken, cap>>
  /\ UNCHANGED <<relayVars, authVars>>

\* s2 is the second response to be opened
GetStream(s, id) ==
  /\ sinkState[s] = "idle"
  /\ s = "s1" \/ sinkState["s1"] # "idle"
  /\ sinkState' = [sinkState EXCEPT ![s] = "open"]
  /\ sinkId' = [sinkId EXCEPT ![s] = id]
  /\ IF MapHas(lastFrame, id)
       THEN /\ wrote' = [kind |-> "replay", id |-> id, f |-> lastFrame[id],
                         out |-> [x \in Sinks |->
                                    IF x = s THEN WriteUnit(lastFrame[id]) ELSE <<>>],
                         failed |-> {}, threw |-> FALSE]
            /\ sent' = <<>>
       ELSE /\ wrote' = NoWrite
            /\ sent' = IF DeviceOpen(id) THEN Send(devices[id], "capture_now") ELSE <<>>
  /\ streamClients' = [streamClients EXCEPT ![id] = @ \cup {s}]
  /\ apiResp' = NoApi
  /\ UNCHANGED <<connVars, regVars, sinkBroken, cap>>
  /\ UNCHANGED <<relayVars, authVars>>

\* the viewer's socket fails: every later res.write throws
SinkBreak(s) ==
  /\ sinkState[s] = "open"
  /\ ~sinkBroken[s]
  /\ sinkBroken' = [sinkBroken EXCEPT ![s] = TRUE]
  /\ Quiet
  /\ UNCHANGED <<connVars, regVars, streamClients, sinkState, sinkId, cap>>
  /\ UNCHANGED <<relayVars, authVars>>

\* req.on("close"): the viewer went away, or the ended response was flushed;
\* the request and its response are then gone
ReqClose(s) ==
  /\ sinkState[s] \in {"open", "ended"}
  /\ sinkState' = [sinkState EXCEPT ![s] = "closed"]
  /\ streamClients' = [streamClients EXCEPT ![sinkId[s]] = @ \ {s}]
  /\ sinkId' = [sinkId EXCEPT ![s] = NoId]
  /\ sinkBroken' = [sinkBroken EXCEPT ![s] = FALSE]
  /\ Quiet
  /\ UNCHANGED <<connVars, regVars, cap>>
  /\ UNCHANGED <<relayVars, authVars>>

(***************************************************************************)
(* MJPEG relay: POST /api/device/:id/capture (lines 555-584).              *)
(***************************************************************************)
\* c2 is the second capture request
PostCapture(c, id) ==
  /\ cap[c].st = "idle"
  /\ c = "c1" \/ cap["c1"].st # "idle"
  /\ IF MapHas(lastFrame, id)
       THEN /\ cap' = [cap EXCEPT ![c] = [st |-> "done", id |-> id, late |-> FALSE,
                         resp |-> [status |-> "ok", body |-> lastFrame[id]]]]
            /\ sent' = <<>>
       ELSE IF ~DeviceOpen(id)
         THEN /\ cap' = [cap EXCEPT ![c] = [st |-> "done", id |-> id, late |-> FALSE,
                           resp |-> [status |-> "device_offline", body |-> <<>>]]]
              /\ sent' = <<>>
         ELSE /\ cap' = [cap EXCEPT ![c] = [st |-> "polling", id |-> id, late |-> FALSE,
                           resp |-> NoResp]]
              /\ sent' = Send(devices[id], "capture_now")
  /\ wrote' = NoWrite
  /\ apiResp' = NoApi
  /\ UNCHANGED <<connVars, regVars, sinkVars>>
  /\ UNCHANGED <<relayVars, authVars>>

\* more than timeoutMs have passed since the request started
CaptureDeadline(c) ==
  /\ cap[c].st = "polling"
  /\ ~cap[c].late
  /\ cap' = [cap EXCEPT ![c].late = TRUE]
  /\ Quiet
  /\ UNCHANGED <<connVars, regVars, sinkVars>>
  /\ UNCHANGED <<relayVars, authVars>>

\* a poll whose interval is never cleared
CapturePollNoClear(c) ==
  /\ cap[c].st \in {"polling", "done"}
  /\ LET id == cap[c].id
     IN IF MapHas(lastFrame, id) /\ Len(lastFrame[id]) > 0
          THEN cap' = [cap EXCEPT ![c].st = "done",
                         ![c].resp = [status |-> "ok", body |-> lastFrame[id]]]
          ELSE IF cap[c].late
            THEN cap' = [cap EXCEPT ![c].st = "done",
                           ![c].resp = [status |-> "timeout", body |-> <<>>]]
            ELSE cap' = cap
  /\ Quiet
  /\ UNCHANGED <<connVars, regVars, sinkVars>>
  /\ UNCHANGED <<relayVars, authVars>>

\* a poll with no deadline branch
CapturePollNoTimeout(c) ==
  /\ cap[c].st = "polling"
  /\ LET id == cap[c].id
     IN IF MapHas(lastFrame, id) /\ Len(lastFrame[id]) > 0
          THEN cap' = [cap EXCEPT ![c].st = "done",
                         ![c].resp = [status |-> "ok", body |-> lastFrame[id]]]
          ELSE cap' = cap
  /\ Quiet
  /\ UNCHANGED <<connVars, regVars, sinkVars>>
  /\ UNCHANGED <<relayVars, authVars>>

\* one run of the setInterval callback
CapturePoll(c) ==
  /\ cap[c].st = "polling"
  /\ LET id == cap[c].id
     IN IF MapHas(lastFrame, id) /\ Len(lastFrame[id]) > 0
          THEN cap' = [cap EXCEPT ![c].st = "done",
                         ![c].resp = [status |-> "ok", body |-> lastFrame[id]]]
          ELSE IF cap[c].late
            THEN cap' = [cap EXCEPT ![c].st = "done",
                           ![c].resp = [status |-> "timeout", body |-> <<>>]]
            ELSE cap' = cap
  /\ Quiet
  /\ UNCHANGED <<connVars, regVars, sinkVars>>
  /\ UNCHANGED <<relayVars, authVars>>

(***************************************************************************)
(* MJPEG relay: the other /api routes (lines 549-552, 587-604).            *)
(***************************************************************************)
GetDevices ==
  /\ apiResp' = [op |-> "devices", id |-> NoId, status |-> "ok", online |-> DOMAIN devices]
  /\ sent' = <<>>
  /\ wrote' = NoWrite
  /\ UNCHANGED <<connVars, regVars, sinkVars, cap>>
  /\ UNCHANGED <<relayVars, authVars>>

PostStream(id, action) ==
  /\ IF ~DeviceOpen(id)
       THEN /\ apiResp' = [op |-> action, id |-> id, status |-> "device_offline", online |-> {}]
            /\ sent' = <<>>
       ELSE IF action = "start"
         THEN /\ apiResp' = [op |-> action, id |-> id, status |-> "started", online |-> {}]
              /\ sent' = Send(devices[id], "start_stream")
         ELSE IF action = "stop"
           THEN /\ apiResp' = [op |-> action, id |-> id, status |-> "stopped", online |-> {}]
                /\ sent' = Send(devices[id], "stop_stream")
           ELSE /\ apiResp' = [op |-> action, id |-> id, status |-> "invalid_action", online |-> {}]
                /\ sent' = <<>>
  /\ wrote' = NoWrite
  /\ UNCHANGED <<connVars, regVars, sinkVars, cap>>
  /\ UNCHANGED <<relayVars, authVars>>

(***************************************************************************)
(* Specifications of the MJPEG relay.  The stream responses and the        *)
(* capture requests read the registry and the frame cache and write only   *)
(* their own state, so each is composed with the WebSocket side on its     *)
(* own.  The keepalive timer only takes an open transport out of OPEN,     *)
(* which MjDrop does at any time: it is part of SpecMjpeg alone.           *)
(***************************************************************************)
NextWs ==
  \/ \E h \in Conns : MjConnection(h)
  \/ \E h \in Conns, f \in Frames : MjBinary(h, f)
  \/ \E h \in Conns, id \in Ids : MjHello(h, id)
  \/ \E h \in Conns, f \in Frames : MjLegacyFrame(h, f)
  \/ \E h \in Conns : MjOtherText(h)
  \/ \E h \in Conns : MjDrop(h)
  \/ \E h \in Conns : MjClose(h)

NextMjpeg ==
  \/ NextWs
  \/ \E h \in Conns : MjPong(h)
  \/ MjKeepalive
  \/ GetDevices
  \/ \E id \in Ids, action \in {"start", "stop", ""} : PostStream(id, action)

NextStream ==
  \/ NextWs
  \/ \E s \in Sinks, id \in Ids : GetStream(s, id)
  \/ \E s \in Sinks : SinkBreak(s)
  \/ \E s \in Sinks : ReqClose(s)

NextCapture ==
  \/ NextWs
  \/ \E c \in Caps, id \in Ids : PostCapture(c, id)
  \/ \E c \in Caps : CaptureDeadline(c)
  \/ \E c \in Caps : CapturePoll(c)

\* the stream side with the texts that do not parse told apart
NextStreamText ==
  \/ NextStream
  \/ \E h \in Conns : MjMalformed(h)

SpecMjpeg == Init /\ [][NextMjpeg]_vars

SpecStreamText == Init /\ [][NextStreamText]_vars

SpecStream == Init /\ [][NextStream]_vars

SpecCapture == Init /\ [][NextCapture]_vars

\* the clock advances and the 250 ms interval timer of a request keeps firing
\* until clearInterval
CaptureFair == \A c \in Caps : WF_vars(CaptureDeadline(c)) /\ WF_vars(CapturePoll(c))

SpecCaptureLive == SpecCapture /\ CaptureFair

\* the capture route with a single device transport
NextCaptureOne ==
  \/ MjConnection("h1")
  \/ \E f \in Frames : MjBinary("h1", f)
  \/ \E id \in Ids : MjHello("h1", id)
  \/ \E f \in Frames : MjLegacyFrame("h1", f)
  \/ MjOtherText("h1")
  \/ MjDrop("h1")
  \/ MjClose("h1")
  \/ \E c \in Caps, id \in Ids : PostCapture(c, id)
  \/ \E c \in Caps : CaptureDeadline(c)
  \/ \E c \in Caps : CapturePoll(c)

SpecCaptureOneLive == Init /\ [][NextCaptureOne]_vars /\ CaptureFair

(***************************************************************************)
(* OTP relay: WebSocket side (wss.on('connection'), lines 165-276).        *)
(* Text messages reach the handler as strings (typeof msg === 'string').   *)
(***************************************************************************)
RQuiet == sent' = <<>> /\ rMsg' = NoCred /\ rWrote' = NoForward /\ cmdResp' = NoCmdResp

\* cam && cam.readyState === WebSocket.OPEN, for cam = clients.get(id)
CameraOpen(id) == MapHas(clients, id) /\ rState[clients[id]] = "open"

\* w2 is the second transport to connect
RConnection(w) ==
  /\ rState[w] = "none"
  /\ w = "w1" \/ rState["w1"] # "none"
  /\ rState' = [rState EXCEPT ![w] = "open"]
  /\ rIsAlive' = [rIsAlive EXCEPT ![w] = TRUE]
  /\ RQuiet
  /\ UNCHANGED <<rDeviceId, rRole, rBroken, rHello, rRegVars, gateVars, otpVars, mjVars, authVars>>

RPong(w) ==
  /\ rState[w] = "open"
  /\ rIsAlive' = [rIsAlive EXCEPT ![w] = TRUE]
  /\ RQuiet
  /\ UNCHANGED <<rState, rDeviceId, rRole, rBroken, rHello, rRegVars, gateVars, otpVars, mjVars, authVars>>

\* the socket of w fails under an OPEN readyState: ws.send throws from now on
RSendFails(w) ==
  /\ rState[w] = "open"
  /\ ~rBroken[w]
  /\ rBroken' = [rBroken EXCEPT ![w] = TRUE]
  /\ RQuiet
  /\ UNCHANGED <<rState, rDeviceId, rRole, rIsAlive, rHello, rRegVars, gateVars, otpVars, mjVars, authVars>>

\* hello, role camera: up to the await of the session read
RHelloCamera(w, id) ==
  /\ rState[w] = "open"
  /\ rDeviceId' = [rDeviceId EXCEPT ![w] = id]
  /\ rRole' = [rRole EXCEPT ![w] = "camera"]
  /\ clients' = MapSet(clients, id, w)
  /\ rHello' = [rHello EXCEPT ![w] = @ \cup {id}]
  /\ RQuiet
  /\ UNCHANGED <<rState, rIsAlive, rBroken, viewers, gateVars, otpVars, mjVars, authVars>>

\* hello, role camera: the session read returns.  On a transport that is no
\* longer OPEN ws.send either throws (caught, sessions.set skipped) or drops
\* the message, depending on the ws release.
RHelloCameraDb(w, id, sendThrows) ==
  /\ id \in rHello[w]
  /\ rHello' = [rHello EXCEPT ![w] = @ \ {id}]
  /\ sendThrows = IF rState[w] = "open" THEN rBroken[w] ELSE sendThrows
  /\ IF MapHas(dbSession, id) /\ NowBefore(dbSession[id].token)
       THEN IF sendThrows
              THEN /\ sent' = <<>>
                   /\ UNCHANGED sessions
              ELSE /\ sent' = IF rState[w] = "open" THEN Send(w, "auth_grant") ELSE <<>>
                   /\ sessions' = MapSet(sessions, id, dbSession[id])
       ELSE /\ sent' = <<>>
            /\ UNCHANGED sessions
  /\ rMsg' = NoCred
  /\ rWrote' = NoForward
  /\ cmdResp' = NoCmdResp
  /\ UNCHANGED <<rState, rDeviceId, rRole, rIsAlive, rBroken, rRegVars, dbSession, tokAge,
                 vGrant, cmdReq, otpVars, mjVars, authVars>>

\* hello, role viewer; cred is whatever credential the message carries
RHelloViewer(w, id, cred) ==
  /\ rState[w] = "open"
  /\ rDeviceId' = [rDeviceId EXCEPT ![w] = id]
  /\ rRole' = [rRole EXCEPT ![w] = "viewer"]
  /\ viewers' = [viewers EXCEPT ![id] = @ \cup {w}]
  /\ rMsg' = cred
  /\ sent' = <<>>
  /\ rWrote' = NoForward
  /\ cmdResp' = NoCmdResp
  /\ UNCHANGED <<rState, rIsAlive, rBroken, rHello, clients, gateVars, otpVars, mjVars, authVars>>

\* {type:'control', deviceId: id}
RControl(w, id, cred) ==
  /\ rState[w] = "open"
  /\ sent' = IF rRole[w] = "viewer" /\ CameraOpen(id) /\ ~rBroken[clients[id]]
               THEN Send(clients[id], "control") ELSE <<>>
  /\ rMsg' = cred
  /\ rWrote' = NoForward
  /\ cmdResp' = NoCmdResp
  /\ UNCHANGED <<rConnVars, rRegVars, gateVars, otpVars, mjVars, authVars>>

\* a text that JSON.parse rejects (lines 177-180: logged, return) or that
\* parses to null (obj.type throws into the catch of line 245)
RMalformed(w) ==
  /\ rState[w] = "open"
  /\ rWrote' = [NoForward EXCEPT !.kind = "invalid"]
  /\ sent' = <<>>
  /\ rMsg' = NoCred
  /\ cmdResp' = NoCmdResp
  /\ UNCHANGED <<rConnVars, rRegVars, gateVars, otpVars, mjVars, authVars>>

\* an auth_grant acknowledgement or any other JSON (and, where RMalformed is
\* not part of the specification, a text that does not parse)
ROtherText(w) ==
  /\ rState[w] = "open"
  /\ RQuiet
  /\ UNCHANGED <<rConnVars, rRegVars, gateVars, otpVars, mjVars, authVars>>

\* the forward loop of the binary branch: try { v.send(msg) } catch(e) {}
Forward(id, f) ==
  LET tried == {v \in viewers[id] : rState[v] = "open"}
      bad == {v \in tried : rBroken[v]}
  IN rWrote' = [kind |-> "publish", id |-> id, f |-> f,
                out |-> [v \in RConns |-> IF v \in tried \ bad THEN <<f>> ELSE <<>>],
                failed |-> bad]

RBinary(w, f) ==
  /\ rState[w] = "open"
  /\ IF rRole[w] = "camera" /\ rDeviceId[w] # NoId
       THEN Forward(rDeviceId[w], f)
       ELSE rWrote' = NoForward
  /\ sent' = <<>>
  /\ rMsg' = NoCred
  /\ cmdResp' = NoCmdResp
  /\ UNCHANGED <<rConnVars, rRegVars, gateVars, otpVars, mjVars, authVars>>

\* the peer closes or the network drops: readyState leaves OPEN
RDrop(w) ==
  /\ rState[w] = "open"
  /\ rState' = [rState EXCEPT ![w] = "closing"]
  /\ RQuiet
  /\ UNCHANGED <<rDeviceId, rRole, rIsAlive, rBroken, rHello, rRegVars, gateVars, otpVars, mjVars, authVars>>

RClose(w) ==
  /\ rState[w] = "closing"
  /\ rState' = [rState EXCEPT ![w] = "closed"]
  /\ IF rRole[w] = "camera" /\ rDeviceId[w] # NoId
       THEN /\ clients' = IF MapHas(clients, rDeviceId[w]) /\ clients[rDeviceId[w]] = w
                            THEN MapDelete(clients, rDeviceId[w]) ELSE clients
            /\ UNCHANGED viewers
       ELSE IF rRole[w] = "viewer" /\ rDeviceId[w] # NoId
         THEN /\ viewers' = [viewers EXCEPT ![rDeviceId[w]] = @ \ {w}]
              /\ UNCHANGED clients
         ELSE UNCHANGED <<clients, viewers>>
  /\ RQuiet
  /\ UNCHANGED <<rDeviceId, rRole, rIsAlive, rBroken, rHello, gateVars, otpVars, mjVars, authVars>>

RWssClients == {w \in RConns : rState[w] \in {"open", "closing"}}

\* what one tick does to each transport of wss.clients, in connection order
RKeepaliveOps ==
  LET op(w) == IF w \in RWssClients
                 THEN <<[to |-> w, msg |-> IF rIsAlive[w] THEN "ping" ELSE "terminate"]>>
                 ELSE <<>>
  IN op("w1") \o op("w2")

RKeepalive ==
  /\ RWssClients # {}
  /\ rState' = [w \in RConns |->
                  IF w \in RWssClients /\ ~rIsAlive[w] /\ rState[w] = "open"
                    THEN "closing" ELSE rState[w]]
  /\ rIsAlive' = [w \in RConns |->
                    IF w \in RWssClients /\ rIsAlive[w] THEN FALSE ELSE rIsAlive[w]]
  /\ sent' = RKeepaliveOps
  /\ rMsg' = NoCred
  /\ rWrote' = NoForward
  /\ cmdResp' = NoCmdResp
  /\ UNCHANGED <<rDeviceId, rRole, rBroken, rHello, rRegVars, gateVars, otpVars, mjVars, authVars>>

NextRelayWs ==
  \/ \E w \in RConns : RConnection(w)
  \/ \E w \in RConns : RSendFails(w)
  \/ \E w \in RConns, id \in Ids : RHelloCamera(w, id)
  \/ \E w \in RConns, id \in Ids, b \in BOOLEAN : RHelloCameraDb(w, id, b)
  \/ \E w \in RConns, id \in Ids, cred \in Creds : RHelloViewer(w, id, cred)
  \/ \E w \in RConns, id \in Ids, cred \in Creds : RControl(w, id, cred)
  \/ \E w \in RConns : ROtherText(w)
  \/ \E w \in RConns, f \in Frames : RBinary(w, f)
  \/ \E w \in RConns : RDrop(w)
  \/ \E w \in RConns : RClose(w)

SpecRelay == Init /\ [][NextRelayWs]_vars

SpecRelayLive ==
  Init /\ [][NextRelayWs \/ (\E w \in RConns : RPong(w)) \/ RKeepalive]_vars

(***************************************************************************)
(* OTP relay: sessions (otp_verify listener lines 337-355, /command lines  *)
(* 99-134, /push_session lines 137-158).                                   *)
(***************************************************************************)
\* time passes an issued token's expiresAt; tokens expire in order of issue
ClockPasses(n) ==
  /\ tokAge[n] \in {"before", "equal"}
  /\ \A m \in TokNums : m < n => tokAge[m] = "after"
  /\ tokAge' = [tokAge EXCEPT ![n] = IF @ = "before" THEN "equal" ELSE "after"]
  /\ RQuiet
  /\ UNCHANGED <<rConnVars, rRegVars, sessions, dbSession, vGrant, cmdReq, otpVars, mjVars, authVars>>

\* the session node is removed from the directory store by another client
DbRevoke(id) ==
  /\ MapHas(dbSession, id)
  /\ dbSession' = MapDelete(dbSession, id)
  /\ RQuiet
  /\ UNCHANGED <<rConnVars, rRegVars, sessions, tokAge, vGrant, cmdReq, otpVars, mjVars, authVars>>

\* otp_verify listener l of device id, its checks passed: genToken() and the
\* write of the session node
VerifyGrantDb(l, id, email) ==
  /\ vGrant[l][id] = NoCred
  /\ \E n \in TokNums :
       /\ tokAge[n] = "unissued"
       /\ \A m \in TokNums : m < n => tokAge[m] # "unissued"
       /\ tokAge' = [tokAge EXCEPT ![n] = "before"]
       /\ dbSession' = MapSet(dbSession, id, [token |-> Token(id, n), email |-> email])
       /\ vGrant' = [vGrant EXCEPT ![l][id] = [token |-> Token(id, n), email |-> email]]
  /\ RQuiet
  /\ UNCHANGED <<rConnVars, rRegVars, sessions, cmdReq, otpVars, mjVars, authVars>>

\* the same listener after its awaits: sessions.set and the auth_grant push
VerifyGrantMem(l, id) ==
  /\ vGrant[l][id] # NoCred
  /\ sessions' = MapSet(sessions, id, vGrant[l][id])
  /\ vGrant' = [vGrant EXCEPT ![l][id] = NoCred]
  /\ sent' = IF CameraOpen(id) /\ ~rBroken[clients[id]]
               THEN Send(clients[id], "auth_grant") ELSE <<>>
  /\ rMsg' = NoCred
  /\ rWrote' = NoForward
  /\ cmdResp' = NoCmdResp
  /\ UNCHANGED <<rConnVars, rRegVars, dbSession, tokAge, cmdReq, otpVars, mjVars, authVars>>

\* sess.email === email && sess.token === token
SameCred(sess, cred) == sess.email = cred.email /\ sess.token = cred.token

\* the quick memory check of /command
MemoryAccepts(id, cred) ==
  /\ MapHas(sessions, id)
  /\ SameCred(sessions[id], cred)
  /\ ~NowAfter(sessions[id].token)

\* the fallback check of /command against the session node
DbAccepts(id, cred) ==
  /\ MapHas(dbSession, id)
  /\ SameCred(dbSession[id], cred)
  /\ NowBefore(dbSession[id].token)

\* lines 122-133: forward the command to the camera
ForwardCmd(id, cred) ==
  /\ rMsg' = cred
  /\ IF ~CameraOpen(id)
       THEN /\ cmdResp' = [op |-> "command", id |-> id, status |-> "camera not connected"]
            /\ sent' = <<>>
       ELSE IF rBroken[clients[id]]
         THEN /\ cmdResp' = [op |-> "command", id |-> id, status |-> "send error"]
              /\ sent' = <<>>
         ELSE /\ cmdResp' = [op |-> "command", id |-> id, status |-> "ok"]
              /\ sent' = Send(clients[id], "cmd")

\* POST /command up to its first await or response
PostCommand(q, id, cred) ==
  /\ cmdReq[q] = NoCmd
  /\ cred # NoCred
  /\ IF MemoryAccepts(id, cred)
       THEN /\ ForwardCmd(id, cred)
            /\ UNCHANGED cmdReq
       ELSE /\ cmdReq' = [cmdReq EXCEPT ![q] = [id |-> id, cred |-> cred]]
            /\ rMsg' = cred
            /\ sent' = <<>>
            /\ cmdResp' = NoCmdResp
  /\ rWrote' = NoForward
  /\ UNCHANGED <<rConnVars, rRegVars, sessions, dbSession, tokAge, vGrant, otpVars, mjVars, authVars>>

\* POST /command: the session read returns
PostCommandDb(q) ==
  /\ cmdReq[q] # NoCmd
  /\ cmdReq' = [cmdReq EXCEPT ![q] = NoCmd]
  /\ LET id == cmdReq[q].id
         cred == cmdReq[q].cred
     IN IF DbAccepts(id, cred)
          THEN /\ sessions' = MapSet(sessions, id, dbSession[id])
               /\ ForwardCmd(id, cred)
          ELSE /\ cmdResp' = [op |-> "command", id |-> id, status |-> "invalid session"]
               /\ rMsg' = cred
               /\ sent' = <<>>
               /\ UNCHANGED sessions
  /\ rWrote' = NoForward
  /\ UNCHANGED <<rConnVars, rRegVars, dbSession, tokAge, vGrant, otpVars, mjVars, authVars>>

\* POST /push_session, from the return of its session read
PushSession(id) ==
  /\ IF ~MapHas(dbSession, id)
       THEN /\ cmdResp' = [op |-> "push_session", id |-> id, status |-> "no session in DB"]
            /\ sent' = <<>>
            /\ UNCHANGED sessions
       ELSE IF ~CameraOpen(id)
         THEN /\ cmdResp' = [op |-> "push_session", id |-> id, status |-> "camera not connected"]
              /\ sent' = <<>>
              /\ UNCHANGED sessions
         ELSE IF rBroken[clients[id]]
           THEN /\ cmdResp' = [op |-> "push_session", id |-> id, status |-> "send error"]
                /\ sent' = <<>>
                /\ UNCHANGED sessions
           ELSE /\ cmdResp' = [op |-> "push_session", id |-> id, status |-> "ok"]
                /\ sent' = Send(clients[id], "auth_grant")
                /\ sessions' = MapSet(sessions, id, dbSession[id])
  /\ rMsg' = NoCred
  /\ rWrote' = NoForward
  /\ UNCHANGED <<rConnVars, rRegVars, dbSession, tokAge, vGrant, cmdReq, otpVars, mjVars, authVars>>

\* The camera side of the relay as the session routes see it: one transport.
NextGate ==
  \/ RConnection("w1")
  \/ \E id \in Ids : RHelloCamera("w1", id)
  \/ \E id \in Ids, b \in BOOLEAN : RHelloCameraDb("w1", id, b)
  \/ RDrop("w1")
  \/ RClose("w1")
  \/ \E n \in TokNums : ClockPasses(n)
  \/ \E id \in Ids : DbRevoke(id)
  \/ \E id \in Ids, e \in Emails : VerifyGrantDb("L1", id, e)
  \/ \E id \in Ids : VerifyGrantMem("L1", id)
  \/ \E q \in Cmds, id \in Ids, cred \in Creds : PostCommand(q, id, cred)
  \/ \E q \in Cmds : PostCommandDb(q)
  \/ \E id \in Ids : PushSession(id)

SpecGate == Init /\ [][NextGate]_vars

\* the same with the camera's texts that do not parse told apart
SpecGateText == Init /\ [][NextGate \/ RMalformed("w1")]_vars

(***************************************************************************)
(* OTP relay: watchDevice and its otp_request listener (lines 287-313,     *)
(* 363-378).  Every request carries an e-mail address (a request without   *)
(* one is ignored at line 294), and a client writes its next request once  *)
(* the one before has been answered.                                       *)
(***************************************************************************)
RelayRest == <<rConnVars, rRegVars, gateVars, mjVars, authVars>>

\* The value events of otp_request.  val is the node of every device after
\* the write, T[i] the listeners that are handed the value of device i.
\* Each of them runs lines 291-296: a pending request is taken and its
\* status set to processing; all the listeners of one event are called with
\* the same snapshot.
Dispatch(val, T) ==
  LET takers(i) == IF val[i] = "pending" THEN T[i] ELSE {}
  IN /\ otpJob' = [l \in Listeners |-> [i \in Ids |->
                      IF l \in takers(i) THEN [pc |-> "claimed", otp |-> NoId]
                      ELSE otpJob[l][i]]]
     /\ otpRequest' = [i \in Ids |-> IF takers(i) # {} THEN "processing" ELSE val[i]]

\* another client creates the node of a device
DbAddDevice(id) ==
  /\ id \notin dbDevices
  /\ dbDevices' = dbDevices \cup {id}
  /\ RQuiet
  /\ UNCHANGED <<listed, watching, otpRequest, otpExpected, otpJob, mailed, otpReqs>>
  /\ UNCHANGED RelayRest

\* devicesRef.on('child_added'): fires once for every child, those present
\* at startup included; watchDevice attaches the listener, which is handed
\* the current value
ChildAdded(id) ==
  /\ id \in dbDevices
  /\ id \notin watching["L1"]
  /\ watching' = [watching EXCEPT !["L1"] = @ \cup {id}]
  /\ Dispatch(otpRequest, [i \in Ids |-> IF i = id THEN {"L1"} ELSE {}])
  /\ RQuiet
  /\ UNCHANGED <<dbDevices, listed, otpExpected, mailed, otpReqs>>
  /\ UNCHANGED RelayRest

\* the initial listing is answered: watchDevice for every key of the answer
InitialListing ==
  /\ ~listed
  /\ listed' = TRUE
  /\ watching' = [watching EXCEPT !["L2"] = dbDevices]
  /\ Dispatch(otpRequest, [i \in Ids |-> IF i \in dbDevices THEN {"L2"} ELSE {}])
  /\ RQuiet
  /\ UNCHANGED <<dbDevices, otpExpected, mailed, otpReqs>>
  /\ UNCHANGED RelayRest

\* a client writes otp_request of device id with status pending
DbWriteOtpRequest(id) ==
  /\ otpReqs[id] < MaxOtps
  /\ otpRequest[id] \in {"none", "sent", "error"}
  /\ \A l \in Listeners : otpJob[l][id] = IdleJob
  /\ otpReqs' = [otpReqs EXCEPT ![id] = @ + 1]
  /\ dbDevices' = dbDevices \cup {id}
  /\ Dispatch([otpRequest EXCEPT ![id] = "pending"],
              [i \in Ids |-> IF i = id THEN {l \in Listeners : id \in watching[l]} ELSE {}])
  /\ RQuiet
  /\ UNCHANGED <<listed, watching, otpExpected, mailed>>
  /\ UNCHANGED RelayRest

\* lines 297-299: genOtp() returns otp, which is written to otp_expected
OtpStore(l, id, otp) ==
  /\ otpJob[l][id].pc = "claimed"
  /\ otpExpected' = [otpExpected EXCEPT ![id] = otp]
  /\ otpJob' = [otpJob EXCEPT ![l][id] = [pc |-> "stored", otp |-> otp]]
  /\ RQuiet
  /\ UNCHANGED <<dbDevices, listed, watching, otpRequest, mailed, otpReqs>>
  /\ UNCHANGED RelayRest

\* lines 300-306 and 309-311: sgMail.send delivers the mail or rejects
OtpMail(l, id, mailFails) ==
  /\ otpJob[l][id].pc = "stored"
  /\ IF mailFails
       THEN /\ otpRequest' = [otpRequest EXCEPT ![id] = "error"]
            /\ otpJob' = [otpJob EXCEPT ![l][id] = IdleJob]
            /\ UNCHANGED mailed
       ELSE /\ mailed' = [mailed EXCEPT ![id] = Append(@, otpJob[l][id].otp)]
            /\ otpJob' = [otpJob EXCEPT ![l][id].pc = "mailed"]
            /\ UNCHANGED otpRequest
  /\ RQuiet
  /\ UNCHANGED <<dbDevices, listed, watching, otpExpected, otpReqs>>
  /\ UNCHANGED RelayRest

\* line 308: status sent
OtpSent(l, id) ==
  /\ otpJob[l][id].pc = "mailed"
  /\ otpRequest' = [otpRequest EXCEPT ![id] = "sent"]
  /\ otpJob' = [otpJob EXCEPT ![l][id] = IdleJob]
  /\ RQuiet
  /\ UNCHANGED <<dbDevices, listed, watching, otpExpected, mailed, otpReqs>>
  /\ UNCHANGED RelayRest

NextWatch ==
  \/ \E id \in Ids : DbAddDevice(id)
  \/ \E id \in Ids : ChildAdded(id)
  \/ InitialListing
  \/ \E id \in Ids : DbWriteOtpRequest(id)
  \/ \E l \in Listeners, id \in Ids, otp \in OtpCodes : OtpStore(l, id, otp)
  \/ \E l \in Listeners, id \in Ids, b \in BOOLEAN : OtpMail(l, id, b)
  \/ \E l \in Listeners, id \in Ids : OtpSent(l, id)

SpecWatch == Init /\ [][NextWatch]_vars

(***************************************************************************)
(* OTP/session server (src/unnamed/part_000).                              *)
(***************************************************************************)
AQuiet == aResp' = NoAResp

Others == <<mjVars, relayVars, sent>>

\* the node devices/{id} as update() sees it: created on first write.  Of its
\* fields the server reads ownerEmail only; streamRequested is what the camera
\* polls; the others (otp, otpExpiresAt, sessionToken, sessionExpiresAt,
\* createdAt) are written in the same calls and never read, and are left out.
DevNode(id) ==
  IF MapHas(aDevices, id) THEN aDevices[id]
  ELSE [ownerEmail |-> NoId, streamRequested |-> FALSE]

Max(S) == CHOOSE x \in S : \A y \in S : y <= x

\* an OTP record's expiresAt passes; records expire in push order
OtpExpires(k) ==
  /\ MapHas(aOtps, k)
  /\ ~aOtps[k].late
  /\ \A j \in DOMAIN aOtps : j < k => aOtps[j].late
  /\ aOtps' = [aOtps EXCEPT ![k].late = TRUE]
  /\ AQuiet
  /\ UNCHANGED <<aDevices, aSessions, aVerify, aStart, Others>>

\* a session's expiresAt passes; sessions expire in order of creation
SessionExpires(n) ==
  /\ MapHas(aSessions, n)
  /\ ~aSessions[n].late
  /\ \A m \in DOMAIN aSessions : m < n => aSessions[m].late
  /\ aSessions' = [aSessions EXCEPT ![n].late = TRUE]
  /\ AQuiet
  /\ UNCHANGED <<aDevices, aOtps, aVerify, aStart, Others>>

RegisterDevice(id, email) ==
  /\ aDevices' = MapSet(aDevices, id,
                        [ownerEmail |-> email, streamRequested |-> FALSE])
  /\ aResp' = [op |-> "register_device", id |-> id, tok |-> 0, status |-> "ok"]
  /\ UNCHANGED <<aOtps, aSessions, aVerify, aStart, Others>>

\* POST /request-otp from the return of its device read; otp is the value
\* genOtp6() returns, mailFails whether sendMail rejects
RequestOtp(id, otp, mailFails) ==
  /\ IF ~MapHas(aDevices, id)
       THEN /\ aResp' = [op |-> "request-otp", id |-> id, tok |-> 0, status |-> "device not found"]
            /\ UNCHANGED aOtps
       ELSE IF aDevices[id].ownerEmail = NoId
         THEN /\ aResp' = [op |-> "request-otp", id |-> id, tok |-> 0,
                           status |-> "ownerEmail not configured"]
              /\ UNCHANGED aOtps
         ELSE /\ \E k \in OtpKeys :
                   /\ ~MapHas(aOtps, k)
                   /\ \A j \in OtpKeys : j < k => MapHas(aOtps, j)
                   /\ aOtps' = MapSet(aOtps, k,
                                      [deviceId |-> id, otp |-> otp, used |-> FALSE, late |-> FALSE])
              /\ aResp' = [op |-> "request-otp", id |-> id, tok |-> 0,
                           status |-> IF mailFails THEN "server_error" ELSE "ok"]
  /\ UNCHANGED <<aDevices, aSessions, aVerify, aStart, Others>>

\* POST /verify-otp: the query view_otps/{id} orderByChild('otp').equalTo(otp)
\* is answered; snap keeps the records of the answer that are not used
VerifyRead(v, id, otp) ==
  /\ aVerify[v].pc = "idle"
  /\ LET found == {k \in DOMAIN aOtps : aOtps[k].deviceId = id /\ aOtps[k].otp = otp}
     IN IF found = {}
          THEN /\ aResp' = [op |-> "verify-otp", id |-> id, tok |-> 0, status |-> "invalid_otp"]
               /\ UNCHANGED aVerify
          ELSE /\ aVerify' = [aVerify EXCEPT ![v] =
                                [pc |-> "read", id |-> id,
                                 snap |-> {k \in found : ~aOtps[k].used}, tok |-> 0]]
               /\ AQuiet
  /\ UNCHANGED <<aDevices, aOtps, aSessions, aStart, Others>>

\* the continuation: the last record that is not used and not expired is
\* matched and marked used
VerifyMark(v) ==
  /\ aVerify[v].pc = "read"
  /\ LET valid == {k \in aVerify[v].snap : ~aOtps[k].late}
     IN IF valid = {}
          THEN /\ aResp' = [op |-> "verify-otp", id |-> aVerify[v].id, tok |-> 0,
                            status |-> "invalid_or_expired_otp"]
               /\ aVerify' = [aVerify EXCEPT ![v] = IdleVerify]
               /\ UNCHANGED aOtps
          ELSE /\ aOtps' = [aOtps EXCEPT ![Max(valid)].used = TRUE]
               /\ aVerify' = [aVerify EXCEPT ![v].pc = "marked", ![v].snap = {Max(valid)}]
               /\ AQuiet
  /\ UNCHANGED <<aDevices, aSessions, aStart, Others>>

\* uuidv4() and the write of sessions/{token}
VerifySession(v) ==
  /\ aVerify[v].pc = "marked"
  /\ \E n \in TokNums :
       /\ ~MapHas(aSessions, n)
       /\ \A m \in TokNums : m < n => MapHas(aSessions, m)
       /\ aSessions' = MapSet(aSessions, n,
                              [deviceId |-> aVerify[v].id, used |-> FALSE, late |-> FALSE])
       /\ aVerify' = [aVerify EXCEPT ![v].pc = "created", ![v].tok = n]
  /\ AQuiet
  /\ UNCHANGED <<aDevices, aOtps, aStart, Others>>

\* the update of devices/{id} and the response
VerifyRespond(v) ==
  /\ aVerify[v].pc = "created"
  /\ aDevices' = MapSet(aDevices, aVerify[v].id, DevNode(aVerify[v].id))
  /\ aResp' = [op |-> "verify-otp", id |-> aVerify[v].id, tok |-> aVerify[v].tok, status |-> "ok"]
  /\ aVerify' = [aVerify EXCEPT ![v] = IdleVerify]
  /\ UNCHANGED <<aOtps, aSessions, aStart, Others>>

\* POST /start-stream: the read of sessions/{sessionToken} is answered
StartRead(t, id, n) ==
  /\ aStart[t].pc = "idle"
  /\ IF ~MapHas(aSessions, n)
       THEN /\ aResp' = [op |-> "start-stream", id |-> id, tok |-> n, status |-> "invalid_session"]
            /\ UNCHANGED aStart
       ELSE /\ aStart' = [aStart EXCEPT ![t] =
                            [pc |-> "read", id |-> id, tok |-> n,
                             snap |-> [deviceId |-> aSessions[n].deviceId,
                                       used |-> aSessions[n].used]]]
            /\ AQuiet
  /\ UNCHANGED <<aDevices, aOtps, aSessions, aVerify, Others>>

DeviceMismatchNever(s, id) == FALSE

\* s.deviceId !== deviceId
DeviceMismatch(s, id) == s.deviceId # id

\* the continuation: the three checks, then the session is marked used
StartCheck(t) ==
  /\ aStart[t].pc = "read"
  /\ LET r == aStart[t]
         reject == IF r.snap.used THEN "session_used"
                   ELSE IF DeviceMismatch(r.snap, r.id) THEN "session_device_mismatch"
                   ELSE IF aSessions[r.tok].late THEN "session_expired"
                   ELSE "none"
     IN IF reject # "none"
          THEN /\ aResp' = [op |-> "start-stream", id |-> r.id, tok |-> r.tok, status |-> reject]
               /\ aStart' = [aStart EXCEPT ![t] = IdleStart]
               /\ UNCHANGED aSessions
          ELSE /\ aSessions' = [aSessions EXCEPT ![r.tok].used = TRUE]
               /\ aStart' = [aStart EXCEPT ![t].pc = "marked"]
               /\ AQuiet
  /\ UNCHANGED <<aDevices, aOtps, aVerify, Others>>

\* the update of devices/{id} and the response (RELAY_API_URL is '')
StartGrant(t) ==
  /\ aStart[t].pc = "marked"
  /\ aDevices' = MapSet(aDevices, aStart[t].id,
                        [DevNode(aStart[t].id) EXCEPT !.streamRequested = TRUE])
  /\ aResp' = [op |-> "start-stream", id |-> aStart[t].id, tok |-> aStart[t].tok, status |-> "ok"]
  /\ aStart' = [aStart EXCEPT ![t] = IdleStart]
  /\ UNCHANGED <<aOtps, aSessions, aVerify, Others>>

StopStream(id) ==
  /\ aDevices' = MapSet(aDevices, id, [DevNode(id) EXCEPT !.streamRequested = FALSE])
  /\ aResp' = [op |-> "stop-stream", id |-> id, tok |-> 0, status |-> "ok"]
  /\ UNCHANGED <<aOtps, aSessions, aVerify, aStart, Others>>

\* the whole server, one request of each kind at a time
NextOtp ==
  \/ \E k \in OtpKeys : OtpExpires(k)
  \/ \E n \in TokNums : SessionExpires(n)
  \/ \E id \in Ids, e \in Emails : RegisterDevice(id, e)
  \/ \E id \in Ids, otp \in OtpCodes, b \in BOOLEAN : RequestOtp(id, otp, b)
  \/ \E id \in Ids, otp \in OtpCodes : VerifyRead("v1", id, otp)
  \/ VerifyMark("v1")
  \/ VerifySession("v1")
  \/ VerifyRespond("v1")
  \/ \E id \in Ids, n \in TokNums : StartRead("t1", id, n)
  \/ StartCheck("t1")
  \/ StartGrant("t1")
  \/ \E id \in Ids : StopStream(id)

SpecOtp == Init /\ [][NextOtp]_vars

\* a /verify-otp request whose OTP matched and was marked used (lines 162-185);
\* which requests match is left open here
VerifyMatched(v, id) ==
  /\ aVerify[v].pc = "idle"
  /\ aVerify' = [aVerify EXCEPT ![v] = [pc |-> "marked", id |-> id, snap |-> {}, tok |-> 0]]
  /\ AQuiet
  /\ UNCHANGED <<aDevices, aOtps, aSessions, aStart, Others>>

\* sessions and the routes that use them, one request of each kind at a time
NextAuth ==
  \/ \E n \in TokNums : SessionExpires(n)
  \/ \E id \in Ids, e \in Emails : RegisterDevice(id, e)
  \/ \E id \in Ids : VerifyMatched("v1", id)
  \/ VerifySession("v1")
  \/ VerifyRespond("v1")
  \/ \E id \in Ids, n \in TokNums : StartRead("t1", id, n)
  \/ StartCheck("t1")
  \/ StartGrant("t1")
  \/ \E id \in Ids : StopStream(id)

SpecAuth == Init /\ [][NextAuth]_vars

\* /verify-otp with two requests in flight at once (express starts a handler
\* per request; they interleave at their awaits); v2 is the request that
\* arrives while v1 is in flight
NextVerify ==
  \/ \E k \in OtpKeys : OtpExpires(k)
  \/ \E id \in Ids, e \in Emails : RegisterDevice(id, e)
  \/ \E id \in Ids, otp \in OtpCodes, b \in BOOLEAN : RequestOtp(id, otp, b)
  \/ \E id \in Ids, otp \in OtpCodes : VerifyRead("v1", id, otp)
  \/ \E id \in Ids, otp \in OtpCodes :
        aVerify["v1"].pc # "idle" /\ VerifyRead("v2", id, otp)
  \/ \E v \in VerifyReqs : VerifyMark(v)
  \/ \E v \in VerifyReqs : VerifySession(v)
  \/ \E v \in VerifyReqs : VerifyRespond(v)

SpecVerify == Init /\ [][NextVerify]_vars

\* a caller can present token n: no /verify-otp request is still holding it
\* back (res.json of line 207 has run), or it is a guess
Handed(n) == \A v \in VerifyReqs : aVerify[v].tok # n

\* /start-stream with two requests in flight at once; t2 is the request that
\* arrives while t1 is in flight
NextStart ==
  \/ \E n \in TokNums : SessionExpires(n)
  \/ \E id \in Ids : VerifyMatched("v1", id)
  \/ VerifySession("v1")
  \/ VerifyRespond("v1")
  \/ \E id \in Ids, n \in TokNums : Handed(n) /\ StartRead("t1", id, n)
  \/ \E id \in Ids, n \in TokNums :
        Handed(n) /\ aStart["t1"].pc # "idle" /\ StartRead("t2", id, n)
  \/ \E t \in StartReqs : StartCheck(t)
  \/ \E t \in StartReqs : StartGrant(t)
  \/ \E id \in Ids : StopStream(id)

SpecStart == Init /\ [][NextStart]_vars

(***************************************************************************)
(* Connection Registry (MJPEG relay).                                      *)
(***************************************************************************)
\* the close handler of transport h runs in this step
Closes(h) == wsState[h] = "closing" /\ wsState'[h] = "closed"

\* C1: when transport h closes, the registry entry of an identity whose
\* stored handle is another transport stays, and so does its cached frame.
C1_GuardedUnregister ==
  [][\A h \in Conns : Closes(h) =>
       \A id \in Ids : (MapHas(devices, id) /\ devices[id] # h) =>
         /\ MapHas(devices', id) /\ devices'[id] = devices[id]
         /\ MapHas(lastFrame, id) =>
              (MapHas(lastFrame', id) /\ lastFrame'[id] = lastFrame[id])]_vars

\* C2: a handshake that replaces the registered transport of an identity
\* leaves the replaced transport closed.
C2_SupersededClosed ==
  [][\A id \in Ids, h \in Conns :
       (MapHas(devices, id) /\ devices[id] # h /\ MapHas(devices', id) /\ devices'[id] = h)
         => wsState'[devices[id]] # "open"]_vars

(***************************************************************************)
(* Command correlation (MJPEG relay, POST /api/device/:id/capture).        *)
(***************************************************************************)
\* C3: a capture request for an identity with no registered connection is
\* answered device_offline in the same step and sends no command, whatever
\* the frame cache holds.
C3_OfflineFailsFast ==
  [][\A c \in Caps :
       (cap[c].st = "idle" /\ cap'[c].st # "idle" /\ ~MapHas(devices, cap'[c].id))
         => /\ cap'[c].st = "done"
            /\ cap'[c].resp.status = "device_offline"
            /\ sent' = <<>>]_vars

\* C4: when the registered transport of an identity closes, every capture
\* request pending for that identity is answered transport_failure.
C4_TeardownFailsPending ==
  [][\A h \in Conns : Closes(h) =>
       \A c \in Caps :
         (cap[c].st = "polling" /\ MapHas(devices, cap[c].id) /\ devices[cap[c].id] = h)
           => (cap'[c].st = "done" /\ cap'[c].resp.status = "transport_failure")]_vars

\* C14: under fair timers every capture request that is waiting for a frame
\* is eventually answered.
C14_PendingTerminates ==
  \A c \in Caps : (cap[c].st = "polling") ~> (cap[c].st = "done")

\* a waiting request was answered after its device's registration had gone
C14_Witness ==
  \E c \in Caps :
    /\ cap[c].st = "done"
    /\ cap[c].resp.status = "timeout"
    /\ ~MapHas(devices, cap[c].id)

\* C15: a capture request carries a response exactly when it is answered,
\* and an answered request never changes again: frames and deadlines that
\* come later leave its response as it is.
C15_ResolvedOnce ==
  [][\A c \in Caps :
       /\ cap[c].st = "done" => cap'[c] = cap[c]
       /\ cap'[c].st = "done" => cap'[c].resp.status \in {"ok", "timeout", "device_offline"}
       /\ cap'[c].st # "done" => cap'[c].resp = NoResp]_vars

\* a request answered timeout, and a frame of its identity cached afterwards
C15_Witness ==
  \E c \in Caps :
    /\ cap[c].st = "done"
    /\ cap[c].resp.status = "timeout"
    /\ MapHas(lastFrame, cap[c].id)
    /\ Len(lastFrame[cap[c].id]) > 0

\* C16: a waiting capture request is answered timeout only after its
\* deadline and only if no frame of its identity is in the cache at that
\* check; otherwise it is answered with the cached frame; it is never
\* answered device_offline.
C16_TimeoutIffNoFrame ==
  [][\A c \in Caps :
       (cap[c].st = "polling" /\ cap'[c].st = "done")
         => /\ cap'[c].resp.status \in {"ok", "timeout"}
            /\ cap'[c].resp.status = "timeout" =>
                 (cap[c].late /\ ~MapHas(lastFrame, cap[c].id))
            /\ cap'[c].resp.status = "ok" =>
                 (MapHas(lastFrame, cap[c].id) /\ cap'[c].resp.body = lastFrame[cap[c].id])]_vars

(***************************************************************************)
(* Liveness Supervisor.                                                    *)
(***************************************************************************)
\* C17: a keepalive tick terminates exactly the transports whose flag is
\* down, leaving them out of OPEN, and pings every other transport and
\* lowers its flag, touching no transport outside wss.clients; the flag of a
\* transport rises only in a step that is not a tick (its pong); and the
\* close that follows leaves the transport's identity not mapped to it.
C17_SupervisorStep ==
  [][/\ (sent' # <<>> /\ sent'[1].msg \in {"ping", "terminate"}) =>
          \A h \in Conns :
            LET ops == SelectSeq(sent', LAMBDA m : m.to = h)
            IN IF h \notin WssClients
                 THEN ops = <<>> /\ wsState'[h] = wsState[h] /\ wsIsAlive'[h] = wsIsAlive[h]
                 ELSE IF wsIsAlive[h]
                   THEN /\ ops = <<[to |-> h, msg |-> "ping"]>>
                        /\ wsState'[h] = wsState[h]
                        /\ ~wsIsAlive'[h]
                   ELSE /\ ops = <<[to |-> h, msg |-> "terminate"]>>
                        /\ wsState'[h] # "open"
                        /\ ~wsIsAlive'[h]
     /\ \A h \in Conns : (~wsIsAlive[h] /\ wsIsAlive'[h]) => sent' = <<>>
     /\ \A h \in Conns :
          (Closes(h) /\ wsDeviceId[h] # NoId) =>
            ~(MapHas(devices', wsDeviceId[h]) /\ devices'[wsDeviceId[h]] = h)]_vars

\* one tick pinged an acknowledging transport and terminated a registered one
\* that was open and had not acknowledged
C17_Witness ==
  /\ Len(sent) = 2
  /\ sent[1].msg = "ping"
  /\ sent[2].msg = "terminate"
  /\ wsState[sent[1].to] = "open"
  /\ wsState[sent[2].to] = "closing"
  /\ MapHas(devices, wsDeviceId[sent[2].to])
  /\ devices[wsDeviceId[sent[2].to]] = sent[2].to

\* C17, the keepalive of the OTP relay: the same step on rState and rIsAlive.
C17_RelaySupervisorStep ==
  [][/\ (sent' # <<>> /\ sent'[1].msg \in {"ping", "terminate"}) =>
          \A w \in RConns :
            LET ops == SelectSeq(sent', LAMBDA m : m.to = w)
            IN IF w \notin RWssClients
                 THEN ops = <<>> /\ rState'[w] = rState[w] /\ rIsAlive'[w] = rIsAlive[w]
                 ELSE IF rIsAlive[w]
                   THEN /\ ops = <<[to |-> w, msg |-> "ping"]>>
                        /\ rState'[w] = rState[w]
                        /\ ~rIsAlive'[w]
                   ELSE /\ ops = <<[to |-> w, msg |-> "terminate"]>>
                        /\ rState'[w] # "open"
                        /\ ~rIsAlive'[w]
     /\ \A w \in RConns : (~rIsAlive[w] /\ rIsAlive'[w]) => sent' = <<>>]_vars

\* C18: no identity is mapped to a transport whose close handler has run.
C18_NoPhantomEntry ==
  \A h \in Conns :
    wsState[h] = "closed" => \A id \in Ids : ~(MapHas(devices, id) /\ devices[id] = h)

\* C19: a viewer transport whose close handler has run is in the subscriber
\* set of no identity (OTP relay).
C19_ClosedViewerUnsubscribed ==
  \A w \in RConns :
    (rState[w] = "closed" /\ rRole[w] = "viewer") => \A id \in Ids : w \notin viewers[id]

\* C19, the MJPEG relay: a response whose request has closed is in no
\* subscriber set.
C19_ClosedResponseUnsubscribed ==
  \A s \in Sinks : sinkState[s] = "closed" => \A id \in Ids : s \notin streamClients[id]

(***************************************************************************)
(* Commands to the device.                                                 *)
(***************************************************************************)
\* C20: a start or stop request for id is answered device_offline and sends
\* nothing when id has no registered transport in OPEN; otherwise the named
\* command is sent once, to the transport registered for id and to no other
\* (an unknown action is refused and sends nothing).
C20_SendCommand ==
  [][apiResp'.op \in {"start", "stop", ""} =>
       LET id == apiResp'.id
           open == MapHas(devices, id) /\ wsState[devices[id]] = "open"
       IN /\ ~open => (apiResp'.status = "device_offline" /\ sent' = <<>>)
          /\ (open /\ apiResp'.op = "start") =>
               /\ apiResp'.status = "started"
               /\ sent' = <<[to |-> devices[id], msg |-> "start_stream"]>>
          /\ (open /\ apiResp'.op = "stop") =>
               /\ apiResp'.status = "stopped"
               /\ sent' = <<[to |-> devices[id], msg |-> "stop_stream"]>>
          /\ (open /\ apiResp'.op = "") =>
               (apiResp'.status = "invalid_action" /\ sent' = <<>>)]_vars

\* start_stream went to the transport registered for the identity while the
\* other transport was open as well
C20_Witness ==
  /\ apiResp.op = "start"
  /\ apiResp.status = "started"
  /\ sent = <<[to |-> devices[apiResp.id], msg |-> "start_stream"]>>
  /\ \A h \in Conns : wsState[h] = "open"

\* C20, the command route of the OTP relay: an accepted /command sends cmd
\* once, to the camera registered for the device; no other /command outcome
\* sends anything, and none is ok while the device has no camera in OPEN.
C20_CommandForward ==
  cmdResp.op = "command" =>
    /\ cmdResp.status = "ok" =>
         (CameraOpen(cmdResp.id) /\ sent = <<[to |-> clients[cmdResp.id], msg |-> "cmd"]>>)
    /\ cmdResp.status # "ok" => sent = <<>>
    /\ cmdResp.status = "camera not connected" => ~CameraOpen(cmdResp.id)

(***************************************************************************)
(* Session Gate (OTP relay).                                               *)
(***************************************************************************)
\* C5: a command call is accepted only if, at that call, the directory store
\* holds the presented session for the identity and it has not expired; a
\* copy held in memory does not replace the lookup.
C5_SessionRecheckedEveryCall ==
  (cmdResp.op = "command" /\ cmdResp.status = "ok") =>
    /\ MapHas(dbSession, cmdResp.id)
    /\ SameCred(dbSession[cmdResp.id], rMsg)
    /\ ~NowAfter(rMsg.token)

\* C6: a transport becomes a subscriber of an identity's fan-out only in a
\* step whose message carries a session the gate accepts for that identity.
C6_GateBeforeFanout ==
  [][\A w \in RConns, id \in Ids :
       (w \notin viewers[id] /\ w \in viewers'[id]) => DbAccepts(id, rMsg')]_vars

\* C7: a start-stream request that names a device other than the one its
\* session was created for is rejected and changes no device node and no
\* session; streamRequested of a device turns true only in the ok response of
\* a start-stream for that device presenting a session created for it.
C7_DeviceScoped ==
  [][/\ \A t \in StartReqs :
          (aStart[t].pc = "read" /\ aStart'[t] # aStart[t]
             /\ aStart[t].snap.deviceId # aStart[t].id)
            => /\ aResp'.op = "start-stream"
               /\ aResp'.id = aStart[t].id
               /\ aResp'.status \in {"session_used", "session_device_mismatch"}
               /\ aStart'[t] = IdleStart
               /\ aDevices' = aDevices
               /\ aSessions' = aSessions
     /\ \A id \in Ids :
          (~DevNode(id).streamRequested /\ MapHas(aDevices', id)
             /\ aDevices'[id].streamRequested)
            => /\ aResp'.op = "start-stream"
               /\ aResp'.status = "ok"
               /\ aResp'.id = id
               /\ aSessions[aResp'.tok].deviceId = id]_vars

\* a session created for one device was presented for the other and refused
C7_Witness ==
  /\ aResp.op = "start-stream"
  /\ aResp.status = "session_device_mismatch"
  /\ aSessions[aResp.tok].deviceId # aResp.id
  /\ ~aSessions[aResp.tok].used

\* C7, the command route of the OTP relay: a command reaches a camera only in
\* an accepted /command call whose token was generated for the device named,
\* and it reaches the camera registered for that device.
C7_CommandScoped ==
  /\ (cmdResp.op = "command" /\ cmdResp.status = "ok") => rMsg.token.dev = cmdResp.id
  /\ (sent # <<>> /\ sent[1].msg = "cmd") =>
       /\ cmdResp.op = "command"
       /\ cmdResp.status = "ok"
       /\ MapHas(clients, cmdResp.id)
       /\ sent[1].to = clients[cmdResp.id]

(***************************************************************************)
(* Frame Cache (MJPEG relay).                                              *)
(***************************************************************************)
\* C11: a step that takes a media unit f for id (binary or legacy) leaves f
\* as the cached frame of id and the cache of every other identity as it was;
\* a replay for id hands out the frame cached for id.
C11_LastWriteWins ==
  [][/\ wrote'.kind \in {"publish", "store"} =>
          /\ MapHas(lastFrame', wrote'.id)
          /\ lastFrame'[wrote'.id] = wrote'.f
          /\ \A id \in Ids \ {wrote'.id} :
               /\ MapHas(lastFrame', id) = MapHas(lastFrame, id)
               /\ MapHas(lastFrame, id) => lastFrame'[id] = lastFrame[id]
     /\ wrote'.kind = "replay" =>
          /\ MapHas(lastFrame, wrote'.id)
          /\ wrote'.f = lastFrame[wrote'.id]
          /\ lastFrame' = lastFrame]_vars

\* a replay hands out the non-empty frame of an identity while another
\* identity has a different frame cached
C11_Witness ==
  /\ wrote.kind = "replay"
  /\ wrote.f # <<>>
  /\ \E id \in Ids \ {wrote.id} : MapHas(lastFrame, id) /\ lastFrame[id] # wrote.f

\* C12: a response opened for id while a frame is cached for id is written
\* that frame, once, in the step that opens it, nobody else is written in
\* that step, and the response is a subscriber of id when the step ends.
C12_LateJoinerReplay ==
  [][\A s \in Sinks :
       (sinkState[s] = "idle" /\ sinkState'[s] = "open" /\ MapHas(lastFrame, sinkId'[s]))
         => /\ wrote'.kind = "replay"
            /\ wrote'.id = sinkId'[s]
            /\ wrote'.out[s] = <<lastFrame[sinkId'[s]]>>
            /\ \A x \in Sinks \ {s} : wrote'.out[x] = <<>>
            /\ s \in streamClients'[sinkId'[s]]]_vars

\* the second response of an identity is opened and replayed its cached frame
C12_Witness ==
  /\ wrote.kind = "replay"
  /\ wrote.out["s2"] = <<wrote.f>>
  /\ streamClients[wrote.id] = {"s1", "s2"}

\* C13: no step evicts a cached frame: an identity that has a frame cached
\* still has one after every step, a transport's close included, so a later
\* subscribe is replayed it.
C13_CacheSurvivesDisconnect ==
  [][\A id \in Ids : MapHas(lastFrame, id) => MapHas(lastFrame', id)]_vars

(***************************************************************************)
(* Fan-out (MJPEG relay).                                                  *)
(***************************************************************************)
\* C8: in a publish where the write to some subscriber failed, every
\* subscriber whose sink is healthy received the unit, and no exception left
\* the handler.
C8_PublishIsolates ==
  (wrote.kind = "publish" /\ wrote.failed # {}) =>
    /\ ~wrote.threw
    /\ \A s \in streamClients[wrote.id] : ~sinkBroken[s] => wrote.out[s] = <<wrote.f>>

C8_Witness ==
  /\ wrote.kind = "publish"
  /\ wrote.failed # {}
  /\ \E s \in streamClients[wrote.id] : ~sinkBroken[s] /\ wrote.out[s] = <<wrote.f>>

\* C9: after a publish, no subscriber whose write failed in it is still in
\* the identity's subscriber set (OTP relay forward loop).
C9_FailedSinkRemoved ==
  rWrote.kind = "publish" => \A v \in rWrote.failed : v \notin viewers[rWrote.id]

\* C10: a response that is subscribed to id before and after a step receives,
\* in that step, exactly the unit published for id (once, and it is the unit
\* now cached), and nothing in a step that publishes nothing for id; units
\* therefore reach it in arrival order.
C10_PerDeviceOrder ==
  [][\A s \in Sinks :
       (sinkId[s] # NoId /\ s \in streamClients[sinkId[s]] /\ s \in streamClients'[sinkId[s]])
         => IF wrote'.kind = "publish" /\ wrote'.id = sinkId[s]
              THEN /\ wrote'.out[s] = <<wrote'.f>>
                   /\ lastFrame'[sinkId[s]] = wrote'.f
              ELSE wrote'.out[s] = <<>>]_vars

\* a subscriber of the device received a non-empty unit in a publish
C10_Witness ==
  /\ wrote.kind = "publish"
  /\ wrote.f # <<>>
  /\ \E s \in streamClients[wrote.id] : wrote.out[s] = <<wrote.f>>

(***************************************************************************)
(* Device listing (MJPEG relay, GET /api/devices).                         *)
(***************************************************************************)
\* C21: the listing names no identity whose registered transport has had its
\* close handler run, and it names every identity that an open transport
\* holds from its handshake while no other transport holds the same identity.
C21_OnlineExact ==
  apiResp.op = "devices" =>
    /\ \A id \in apiResp.online :
         MapHas(devices, id) /\ wsState[devices[id]] # "closed"
    /\ \A h \in Conns :
         (wsState[h] = "open" /\ wsDeviceId[h] # NoId
            /\ \A g \in Conns \ {h} : wsDeviceId[g] # wsDeviceId[h])
           => wsDeviceId[h] \in apiResp.online

(***************************************************************************)
(* Malformed messages.                                                     *)
(***************************************************************************)
\* C22: a step that drops an unparseable text of a device leaves the
\* registry, the frame cache, the subscriber sets, the pending requests and
\* every transport as they were (the sender's transport stays open with its
\* identity, so its next message is handled), sends and writes nothing, and
\* no exception leaves the handler.
C22_MalformedDropped ==
  [][wrote'.kind = "invalid" =>
       /\ UNCHANGED <<devices, lastFrame, streamClients, cap>>
       /\ UNCHANGED <<wsState, wsDeviceId, wsIsAlive, sinkState, sinkId, sinkBroken>>
       /\ \E h \in Conns : wsState'[h] = "open"
       /\ sent' = <<>>
       /\ \A s \in Sinks : wrote'.out[s] = <<>>
       /\ ~wrote'.threw]_vars

\* C22, the OTP relay: the same for its camera registry, viewer sets and
\* session table.
C22_RelayMalformedDropped ==
  [][rWrote'.kind = "invalid" =>
       /\ UNCHANGED <<clients, viewers, sessions, dbSession>>
       /\ UNCHANGED <<rState, rDeviceId, rRole, rIsAlive>>
       /\ \E w \in RConns : rState'[w] = "open"
       /\ sent' = <<>>
       /\ \A w \in RConns : rWrote'.out[w] = <<>>]_vars

\* an unparseable text was dropped while a device was registered with a
\* cached frame and a subscriber
C22_Witness ==
  /\ wrote.kind = "invalid"
  /\ \E id \in Ids :
       /\ DeviceOpen(id)
       /\ MapHas(lastFrame, id)
       /\ streamClients[id] # {}

(***************************************************************************)
(* One device connection per identity.                                     *)
(***************************************************************************)
\* C23: a media unit is cached and fanned out under id only when it came in
\* on the transport registered for id; so after such a step id is registered
\* to a transport that is open and whose identity is id.
C23_OnlyRegisteredPublishes ==
  wrote.kind = "publish" =>
    /\ MapHas(devices, wrote.id)
    /\ wsState[devices[wrote.id]] = "open"
    /\ wsDeviceId[devices[wrote.id]] = wrote.id

\* C23, the OTP relay: a frame is forwarded to the viewers of id only when id
\* is registered to an open camera transport whose identity is id.
C23_OnlyRegisteredForwards ==
  rWrote.kind = "publish" =>
    /\ MapHas(clients, rWrote.id)
    /\ rState[clients[rWrote.id]] = "open"
    /\ rDeviceId[clients[rWrote.id]] = rWrote.id
    /\ rRole[clients[rWrote.id]] = "camera"

(***************************************************************************)
(* Single use of OTPs and sessions (OTP/session server).                   *)
(***************************************************************************)
\* C24: every /verify-otp request that got past the OTP check, and every
\* session created, is accounted for by an OTP record of its own that is
\* marked used: no OTP record lets two requests through, whatever the
\* interleaving, so no record yields two sessions.
C24_OtpSingleUse ==
  Cardinality(DOMAIN aSessions) + Cardinality({v \in VerifyReqs : aVerify[v].pc = "marked"})
    <= Cardinality({k \in DOMAIN aOtps : aOtps[k].used})

\* C25: a /start-stream request whose checks run when its session is already
\* marked used is answered session_used and changes nothing, whenever it was
\* started; so of the requests presenting one token at most one gets past
\* the checks, marks the session and sets streamRequested.
C25_SessionSingleUse ==
  [][\A t \in StartReqs :
       (aStart[t].pc = "read" /\ aStart'[t] # aStart[t] /\ aSessions[aStart[t].tok].used)
         => /\ aResp'.op = "start-stream"
            /\ aResp'.status = "session_used"
            /\ aStart'[t] = IdleStart
            /\ aSessions' = aSessions
            /\ aDevices' = aDevices]_vars

(***************************************************************************)
(* otp_request processing (OTP relay).                                     *)
(***************************************************************************)
\* C26: a pending otp_request is taken by one handler run only, so a device
\* has had no more mails than requests, and when a request is marked sent
\* the OTP mailed last is the one stored as otp_expected.
C26_RequestProcessedOnce ==
  \A id \in Ids :
    /\ Cardinality({l \in Listeners : otpJob[l][id] # IdleJob}) <= 1
    /\ Len(mailed[id]) <= otpReqs[id]
    /\ otpRequest[id] = "sent" =>
         (mailed[id] # <<>> /\ mailed[id][Len(mailed[id])] = otpExpected[id])

(***************************************************************************)
(* Viewer control messages (OTP relay).                                    *)
(***************************************************************************)
\* C27: a control message reaches a camera transport only from a viewer that
\* subscribed to the device this camera is registered for; so when one has
\* just been delivered, some open viewer transport has such a device.
C27_ControlScoped ==
  (sent # <<>> /\ sent[1].msg = "control") =>
    \E w \in RConns :
      /\ rState[w] = "open"
      /\ rRole[w] = "viewer"
      /\ MapHas(clients, rDeviceId[w])
      /\ clients[rDeviceId[w]] = sent[1].to

====
